---- MODULE Spec2Model ----
(***************************************************************************)
(* Movie search console: the analytics logger (log_writer.py), the query   *)
(* builder (mysql_connector.py), the search facade (search_engine.py), the *)
(* paginator (pagination.py) and the interactive controller                *)
(* (ui_controller.py, input_utils.py).                                     *)
(*                                                                         *)
(* Strings are sequences of one-character strings, so that lower(),        *)
(* strip(), sorted() and LIKE are computed and not assumed.  Time is in    *)
(* whole seconds.                                                          *)
(***************************************************************************)
EXTENDS Integers, Sequences, FiniteSets, TLC

VARIABLES
    numFilms,       \* catalog store: films 1..numFilms exist
    clock,          \* wall clock read by datetime.utcnow()
    collection,     \* log store: the documents, in insertion order
    openConns,      \* catalog connections opened and not closed
    openCursors,    \* catalog cursors opened and not closed
    pc,             \* position of the running entry point
    lastCall,       \* observation of the latest facade call
    locals,         \* local variables of the running handler or paginator
    session         \* observation of the latest paginated session, until the
                    \* next menu action

(* ------------------------------ bounds --------------------------------- *)
MaxFilms == 15
MaxTime == 6

(* -------------------------- program constants -------------------------- *)
PageSize == 10
DedupWindow == 5
MinLoggedYear == 1990

(* ------------------------------ strings -------------------------------- *)
Code(c) ==
    CASE c = " " -> 32 [] c = "!" -> 33 [] c = "A" -> 65 [] c = "D" -> 68
      [] c = "M" -> 77 [] c = "W" -> 87 [] c = "a" -> 97 [] c = "c" -> 99
      [] c = "d" -> 100 [] c = "e" -> 101 [] c = "m" -> 109 [] c = "r" -> 114
      [] c = "s" -> 115 [] c = "t" -> 116 [] c = "w" -> 119 [] c = "x" -> 120

LowerChar(c) ==
    CASE c = "A" -> "a" [] c = "D" -> "d" [] c = "M" -> "m" [] c = "W" -> "w"
      [] c = "Y" -> "y" [] c = "N" -> "n" [] OTHER -> c

\* str.lower()
Lower(s) == [i \in 1..Len(s) |-> LowerChar(s[i])]

RECURSIVE LStrip(_)
LStrip(s) == IF s # <<>> /\ Head(s) = " " THEN LStrip(Tail(s)) ELSE s

RECURSIVE RStrip(_)
RStrip(s) ==
    IF s # <<>> /\ s[Len(s)] = " " THEN RStrip(SubSeq(s, 1, Len(s) - 1)) ELSE s

\* str.strip()
Strip(s) == RStrip(LStrip(s))

\* Python's str < str: by code point, a proper prefix first
RECURSIVE StrLess(_, _)
StrLess(a, b) ==
    IF b = <<>> THEN FALSE
    ELSE IF a = <<>> THEN TRUE
    ELSE IF Code(Head(a)) # Code(Head(b)) THEN Code(Head(a)) < Code(Head(b))
    ELSE StrLess(Tail(a), Tail(b))

RECURSIVE InsertSorted(_, _)
InsertSorted(g, s) ==
    IF s = <<>> THEN <<g>>
    ELSE IF StrLess(g, Head(s)) THEN <<g>> \o s
    ELSE <<Head(s)>> \o InsertSorted(g, Tail(s))

\* sorted(list of str)
RECURSIVE sorted(_)
sorted(s) == IF s = <<>> THEN <<>> ELSE InsertSorted(Head(s), sorted(Tail(s)))

\* substring test, as title LIKE '%k%' needs it
Contains(t, k) ==
    \E i \in 0..(Len(t) - Len(k)) : SubSeq(t, i + 1, i + Len(k)) = k

Range(s) == {s[i] : i \in 1..Len(s)}

(* --------------------------- the catalog store ------------------------- *)
Action == <<"A", "c", "t">>
Drama == <<"D", "r", "a">>
Western == <<"W", "e", "s">>

\* film.title
Title(f) == IF f % 2 = 0 THEN <<"M", "a", "d">> ELSE <<"M", "a">>

\* film.release_year
ReleaseYear(f) == 1985 + 10 * (f % 3)

\* film_category JOIN category: the names of the film's categories
FilmGenres(f) ==
    CASE f % 4 = 1 -> {Action}
      [] f % 4 = 2 -> {Drama}
      [] f % 4 = 3 -> {Action, Drama}
      [] OTHER -> {}

\* catalogs of no film, of less than a page and of more than a page
Catalogs == {0, MaxFilms - PageSize, MaxFilms}

(* ------------------------ the log store (MongoDB) ---------------------- *)
MongoOutcomes == {"ok", "find_fails", "insert_fails"}

\* the document insert_one stores for a probe
WithTimestamp(probe, ts) == probe @@ [timestamp |-> ts]

\* a stored document without its timestamp
Event(e) == [f \in (DOMAIN e) \ {"timestamp"} |-> e[f]]

\* the window with $gt in the place of $gte
InWindowStrict(ts, now) == ts > now - DedupWindow

\* "timestamp": {"$gte": now - timedelta(seconds=5)}
InWindow(ts, now) == ts >= now - DedupWindow

\* a query that leaves the event's fields out of the filter
find_one_any(store, probe, now) ==
    \E i \in 1..Len(store) : InWindow(store[i].timestamp, now)

\* collection.find_one({...probe..., "timestamp": {"$gte": now - 5s}})
find_one(store, probe, now) ==
    \E i \in 1..Len(store) :
        /\ Event(store[i]) = probe
        /\ InWindow(store[i].timestamp, now)

\* a logger that replaces the event's older entries instead of adding to them
CheckThenReplace(store, probe, now, mongo) ==
    IF mongo = "find_fails"
    THEN [store |-> store, raised |-> TRUE, probed |-> FALSE, probe |-> probe,
          info |-> 0]
    ELSE IF find_one(store, probe, now)
    THEN [store |-> store, raised |-> FALSE, probed |-> TRUE, probe |-> probe,
          info |-> 0]
    ELSE IF mongo = "insert_fails"
    THEN [store |-> store, raised |-> TRUE, probed |-> FALSE, probe |-> probe,
          info |-> 0]
    ELSE [store |-> Append(SelectSeq(store, LAMBDA e : Event(e) # probe),
                           WithTimestamp(probe, now)),
          raised |-> FALSE, probed |-> TRUE, probe |-> probe, info |-> 1]

\* a logger whose suppressed call moves the found entry's timestamp to now
CheckThenTouch(store, probe, now, mongo) ==
    IF mongo = "find_fails"
    THEN [store |-> store, raised |-> TRUE, probed |-> FALSE, probe |-> probe,
          info |-> 0]
    ELSE IF find_one(store, probe, now)
    THEN [store |-> [i \in 1..Len(store) |->
                        IF Event(store[i]) = probe
                        THEN [store[i] EXCEPT !.timestamp = now] ELSE store[i]],
          raised |-> FALSE, probed |-> TRUE, probe |-> probe, info |-> 0]
    ELSE IF mongo = "insert_fails"
    THEN [store |-> store, raised |-> TRUE, probed |-> FALSE, probe |-> probe,
          info |-> 0]
    ELSE [store |-> Append(store, WithTimestamp(probe, now)),
          raised |-> FALSE, probed |-> TRUE, probe |-> probe, info |-> 1]

\* recent = find_one(...); if not recent: insert_one({..., "timestamp": now}) and
\* logging.info(...); `info` counts the lines appended to the operational log
CheckThenInsert(store, probe, now, mongo) ==
    IF mongo = "find_fails"
    THEN [store |-> store, raised |-> TRUE, probed |-> FALSE, probe |-> probe,
          info |-> 0]
    ELSE IF find_one(store, probe, now)
    THEN [store |-> store, raised |-> FALSE, probed |-> TRUE, probe |-> probe,
          info |-> 0]
    ELSE IF mongo = "insert_fails"
    THEN [store |-> store, raised |-> TRUE, probed |-> FALSE, probe |-> probe,
          info |-> 0]
    ELSE [store |-> Append(store, WithTimestamp(probe, now)),
          raised |-> FALSE, probed |-> TRUE, probe |-> probe, info |-> 1]

\* the logger returned early: nothing asked of the store
NoLog(store) ==
    [store |-> store, raised |-> FALSE, probed |-> FALSE, probe |-> [type |-> "none"],
     info |-> 0]

\* the list trimmed with its blank entries kept
GenresCleanKeepBlanks(genres) == [i \in 1..Len(genres) |-> Strip(genres[i])]

\* the cleaned list with its names lower-cased
GenresCleanLower(genres) ==
    LET keep == SelectSeq(genres, LAMBDA g : g # <<>> /\ Strip(g) # <<>>)
    IN  [i \in 1..Len(keep) |-> Lower(Strip(keep[i]))]

\* [g.strip() for g in genres if g and g.strip()]
GenresClean(genres) ==
    LET keep == SelectSeq(genres, LAMBDA g : g # <<>> /\ Strip(g) # <<>>)
    IN  [i \in 1..Len(keep) |-> Strip(keep[i])]

\* f"{year_from}-{year_to}" (the separator is an en dash, written "--" here)
FormatYears(year_from, year_to) == <<year_from, "--", year_to>>

\* Python values of a year argument: an int, or None
PyInt(n) == [int |-> TRUE, v |-> n]
PyNone == [int |-> FALSE]

\* a Python str passed where the year is expected
PyStr(s) == [int |-> FALSE, text |-> s]
IsStr(value) == "text" \in DOMAIN value

DecimalDigits == <<"0", "1", "2", "3", "4", "5", "6", "7", "8", "9">>

IsDecimal(s) == s # <<>> /\ \A i \in 1..Len(s) : s[i] \in Range(DecimalDigits)

DigitValue(c) == (CHOOSE d \in 1..Len(DecimalDigits) : DecimalDigits[d] = c) - 1

\* the number a string of decimal digits denotes
RECURSIVE ParseInt(_, _)
ParseInt(s, acc) ==
    IF s = <<>> THEN acc ELSE ParseInt(Tail(s), acc * 10 + DigitValue(Head(s)))

\* try: year = int(raw_year) / except (ValueError, TypeError): year = None
\* int() of an int is the int, of None a TypeError, of a str the number its
\* trimmed text denotes or a ValueError
int_or_none(raw_year) ==
    IF raw_year.int THEN PyInt(raw_year.v)
    ELSE IF IsStr(raw_year) /\ IsDecimal(Strip(raw_year.text))
    THEN PyInt(ParseInt(Strip(raw_year.text), 0))
    ELSE PyNone

\* logged as the wrapper sees it: kwargs.get("logged", False); a flag passed
\* positionally is in args, not in kwargs
KwargsLogged(flag) == ~flag.positional /\ flag.value

\* if kwargs.get("logged", False): return func(*args, **kwargs)
Bypass(logged) == logged

\* the keyword trimmed and left in its case
NormalizeKeywordStripOnly(text) == Strip(text)

\* keyword = args[0].lower().strip()
NormalizeKeyword(text) == Strip(Lower(text))

\* the logging half of log_search(log_type).decorator.wrapper
WrapperLog(log_type, args, logged, now, store, mongo) ==
    IF Bypass(logged) THEN NoLog(store)
    ELSE IF log_type = "keyword" THEN
        LET keyword == NormalizeKeyword(args.keyword) IN
        IF keyword = <<>> THEN NoLog(store)
        ELSE CheckThenInsert(store, [type |-> "keyword", keyword |-> keyword],
                             now, mongo)
    ELSE IF log_type = "genre_year" THEN
        LET genres_clean == GenresClean(args.genres) IN
        IF genres_clean = <<>> THEN NoLog(store)
        ELSE CheckThenInsert(store,
                 [type |-> "genre_year", genres |-> sorted(genres_clean),
                  years |-> FormatYears(args.year_from, args.year_to)],
                 now, mongo)
    ELSE
        LET genres_clean == GenresClean(args.genres)
            year == int_or_none(args.year)
        IN  IF genres_clean = <<>> \/ ~year.int \/ year.v < MinLoggedYear
            THEN NoLog(store)
            ELSE CheckThenInsert(store,
                     [type |-> "genre_exact_year", genres |-> sorted(genres_clean),
                      year |-> year.v],
                     now, mongo)

\* log_writer.log_keyword_search(keyword): the same steps, called directly
log_keyword_search(keyword, now, store, mongo) ==
    LET normalized == NormalizeKeyword(keyword) IN
    IF normalized = <<>> THEN NoLog(store)
    ELSE CheckThenInsert(store, [type |-> "keyword", keyword |-> normalized],
                         now, mongo)

\* log_writer.log_genre_year_search(genres, year_from, year_to)
log_genre_year_search(genres, year_from, year_to, now, store, mongo) ==
    LET genres_clean == GenresClean(genres) IN
    IF genres_clean = <<>> THEN NoLog(store)
    ELSE CheckThenInsert(store,
             [type |-> "genre_year", genres |-> sorted(genres_clean),
              years |-> FormatYears(year_from, year_to)],
             now, mongo)

\* log_writer.log_genre_exact_year_search(genres, year): the year is compared
\* as it was passed, and `year < 1990` of a str raises TypeError
log_genre_exact_year_search(genres, year, now, store, mongo) ==
    LET genres_clean == GenresClean(genres) IN
    IF genres_clean = <<>> \/ year = PyNone THEN NoLog(store)
    ELSE IF IsStr(year)
    THEN [store |-> store, raised |-> TRUE, probed |-> FALSE,
          probe |-> [type |-> "none"], info |-> 0]
    ELSE IF year.v < MinLoggedYear THEN NoLog(store)
    ELSE CheckThenInsert(store,
             [type |-> "genre_exact_year", genres |-> sorted(genres_clean),
              year |-> year.v],
             now, mongo)

(* ------------------- the query builder (mysql_connector) --------------- *)
DbOutcomes == {"ok", "conn_refused", "cursor_error", "query_error"}

\* the page queries state no ORDER BY: the store picks the row order
RowOrders == {"asc", "desc"}

EmptyList == [kind |-> "list", movies |-> <<>>]
EmptyDict == [kind |-> "dict", movies |-> <<>>, total_count |-> 0]
NoValue == [kind |-> "none"]

\* the matching films, by ascending film_id or by descending film_id
Rows(matching, order) ==
    LET asc == SelectSeq([f \in 1..numFilms |-> f], LAMBDA f : f \in matching) IN
    IF order = "asc" THEN asc ELSE [i \in 1..Len(asc) |-> asc[Len(asc) + 1 - i]]

\* a LIMIT without its OFFSET
LimitOffsetFromStart(rows, offset) ==
    SubSeq(rows, 1, IF PageSize < Len(rows) THEN PageSize ELSE Len(rows))

\* LIMIT 10 OFFSET %s
LimitOffset(rows, offset) ==
    IF offset >= Len(rows) THEN <<>>
    ELSE SubSeq(rows, offset + 1, IF offset + PageSize < Len(rows)
                                  THEN offset + PageSize ELSE Len(rows))

\* WHERE f.title LIKE %s, with %keyword% under a case-insensitive collation
KeywordMatches(keyword, f) == Contains(Lower(Title(f)), Lower(keyword))

\* c.name IN (...) under the same collation
GenreIn(name, genres_clean) ==
    \E i \in 1..Len(genres_clean) : Lower(name) = Lower(genres_clean[i])

\* a filter that asks for every requested genre
GenreYearMatchesAllOf(genres_clean, year_from, year_to, f) ==
    /\ \A i \in 1..Len(genres_clean) :
          \E g \in FilmGenres(f) : Lower(g) = Lower(genres_clean[i])
    /\ year_from <= ReleaseYear(f)
    /\ ReleaseYear(f) <= year_to

\* WHERE c.name IN (...) AND f.release_year BETWEEN %s AND %s GROUP BY f.film_id
GenreYearMatches(genres_clean, year_from, year_to, f) ==
    /\ \E g \in FilmGenres(f) : GenreIn(g, genres_clean)
    /\ year_from <= ReleaseYear(f)
    /\ ReleaseYear(f) <= year_to

\* WHERE c.name IN (...) AND f.release_year = %s GROUP BY f.film_id
GenreExactYearMatches(genres_clean, year, f) ==
    /\ \E g \in FilmGenres(f) : GenreIn(g, genres_clean)
    /\ ReleaseYear(f) = year

\* one row of the keyword query: LEFT JOINs, every genre of the film aggregated
KeywordRow(f) == [film |-> f, genre |-> FilmGenres(f)]

\* a genre query whose filter chose the films only
GenreRowAllGenres(f, genres_clean) == [film |-> f, genre |-> FilmGenres(f)]

\* one row of a genre query: the IN filter is applied before GROUP_CONCAT
GenreRow(f, genres_clean) ==
    [film |-> f, genre |-> {g \in FilmGenres(f) : GenreIn(g, genres_clean)}]

\* [g.strip() for g in genres if g.strip()]
SqlGenresClean(genres) ==
    LET keep == SelectSeq(genres, LAMBDA g : Strip(g) # <<>>)
    IN  [i \in 1..Len(keep) |-> Strip(keep[i])]

\* create_connection(): None when connect raises
create_connection(db) == db # "conn_refused"

\* finally: cursor.close(); connection.close()
\* `cursor` is unbound when connection.cursor() raised: cursor.close() then raises
\* UnboundLocalError, which replaces the pending return, and connection.close()
\* is not reached
Finally(cursor_bound, pending) ==
    IF cursor_bound
    THEN [ret |-> pending, raised |-> FALSE, conns |-> 0, cursors |-> 0]
    ELSE [ret |-> NoValue, raised |-> TRUE, conns |-> 1, cursors |-> 0]

\* the try / except Error / finally frame the three searches share
TryQuery(db, malformed, result, empty) ==
    IF ~create_connection(db)
    THEN [ret |-> empty, raised |-> FALSE, conns |-> 0, cursors |-> 0]
    ELSE IF db = "cursor_error" THEN Finally(FALSE, empty)
    ELSE IF db = "query_error" \/ malformed THEN Finally(TRUE, empty)
    ELSE Finally(TRUE, result)

\* mysql_connector.search_by_keyword
sql_search_by_keyword(keyword, offset, db, order) ==
    LET rows == Rows({f \in 1..numFilms : KeywordMatches(keyword, f)}, order)
        page == LimitOffset(rows, offset)
    IN  TryQuery(db, FALSE,
                 [kind |-> "list",
                  movies |-> [i \in 1..Len(page) |-> KeywordRow(page[i])]],
                 EmptyList)

GenreResultPageCount(rows, page, genres_clean) ==
    [kind |-> "dict",
     movies |-> [i \in 1..Len(page) |-> GenreRow(page[i], genres_clean)],
     total_count |-> Len(page)]

\* total_count = cursor.fetchone()["total"]; movies = cursor.fetchall();
\* return {"movies": movies, "total_count": total_count}
GenreResult(rows, page, genres_clean) ==
    [kind |-> "dict",
     movies |-> [i \in 1..Len(page) |-> GenreRow(page[i], genres_clean)],
     total_count |-> Len(rows)]

\* mysql_connector.search_by_genre_year
sql_search_by_genre_year(genres, year_from, year_to, offset, db, order) ==
    LET genres_clean == SqlGenresClean(genres)
        rows == Rows({f \in 1..numFilms :
                        GenreYearMatches(genres_clean, year_from, year_to, f)}, order)
        page == LimitOffset(rows, offset)
    IN  TryQuery(db, genres_clean = <<>>, GenreResult(rows, page, genres_clean),
                 EmptyDict)

\* the leading decimal digits of a string, as a number (0 when there are none)
RECURSIVE NumericPrefix(_, _)
NumericPrefix(s, acc) ==
    IF s = <<>> \/ Head(s) \notin Range(DecimalDigits) THEN acc
    ELSE NumericPrefix(Tail(s), acc * 10 + DigitValue(Head(s)))

\* AND f.release_year = %s: an int is compared as it is, None is sent as NULL,
\* a str is sent quoted and compared by the number it starts with
SqlYear(year) ==
    IF year.int THEN year
    ELSE IF IsStr(year) THEN PyInt(NumericPrefix(LStrip(year.text), 0))
    ELSE PyNone

\* mysql_connector.search_by_genre_exact_year; `f.release_year = NULL` is true
\* of no row
sql_search_by_genre_exact_year(genres, year, offset, db, order) ==
    LET genres_clean == SqlGenresClean(genres)
        sql_year == SqlYear(year)
        rows == Rows({f \in 1..numFilms :
                        /\ sql_year.int
                        /\ GenreExactYearMatches(genres_clean, sql_year.v, f)},
                     order)
        page == LimitOffset(rows, offset)
    IN  TryQuery(db, genres_clean = <<>>, GenreResult(rows, page, genres_clean),
                 EmptyDict)

SqlSearch(fn, args, offset, db, order) ==
    IF fn = "keyword" THEN sql_search_by_keyword(args.keyword, offset, db, order)
    ELSE IF fn = "genre_year"
    THEN sql_search_by_genre_year(args.genres, args.year_from, args.year_to,
                                  offset, db, order)
    ELSE sql_search_by_genre_exact_year(args.genres, args.year, offset, db, order)

(* ---------------------- the search facade (search_engine) -------------- *)
\* a wrapper that hands the wrapped function the criteria it normalized
FacadeNormalized(fn, args, offset, logged, now, store, mongo, db, order) ==
    LET lg == WrapperLog(fn, args, logged, now, store, mongo)
        normalized == IF fn = "keyword"
                      THEN [keyword |-> NormalizeKeyword(args.keyword)]
                      ELSE [args EXCEPT !.genres = sorted(GenresClean(args.genres))]
    IN  IF lg.raised
        THEN [store |-> lg.store, log |-> lg, qbCalls |-> 0, raised |-> TRUE,
              ret |-> NoValue, conns |-> 0, cursors |-> 0]
        ELSE LET q == SqlSearch(fn, normalized, offset, db, order)
             IN  [store |-> lg.store, log |-> lg, qbCalls |-> 1, raised |-> q.raised,
                  ret |-> q.ret, conns |-> q.conns, cursors |-> q.cursors]

\* @log_search(fn) def search_by_...(..., offset, logged): the wrapper logs, then
\* calls the wrapped function; an exception of the log store leaves the wrapper
\* before the wrapped function is called
Facade(fn, args, offset, logged, now, store, mongo, db, order) ==
    LET lg == WrapperLog(fn, args, logged, now, store, mongo) IN
    IF lg.raised
    THEN [store |-> lg.store, log |-> lg, qbCalls |-> 0, raised |-> TRUE,
          ret |-> NoValue, conns |-> 0, cursors |-> 0]
    ELSE LET q == SqlSearch(fn, args, offset, db, order)
         IN  [store |-> lg.store, log |-> lg, qbCalls |-> 1, raised |-> q.raised,
              ret |-> q.ret, conns |-> q.conns, cursors |-> q.cursors]

(* ----------------------------- observation ----------------------------- *)
vars == <<numFilms, clock, collection, openConns, openCursors, pc, lastCall,
          locals, session>>

NoCall == [made |-> FALSE]
NoLocals == [h |-> "none"]
NoSession ==
    [fn |-> "none", args |-> <<>>, flags |-> <<>>, offsets |-> <<>>, sizes |-> <<>>,
     inserts |-> 0, failed |-> FALSE, signal |-> "none"]

\* what a facade call did, as its caller and the catalog store saw it
ObserveResult(fn, args, offset, logged, e, r) ==
    [made |-> TRUE, fn |-> fn, args |-> args, offset |-> offset, logged |-> logged,
     db |-> e.db, order |-> e.order, qbCalls |-> r.qbCalls, raised |-> r.raised,
     ret |-> r.ret, probed |-> r.log.probed, info |-> r.log.info]

\* what a facade call asked of the log store
ObserveLog(r) == [made |-> TRUE, completed |-> r.log.probed, probe |-> r.log.probe]

(* ------------ a caller of the facade (search_engine's interface) ------- *)
DirectKeywords == {<<>>, <<" ", "M", "a", " ">>, <<"m", "a">>}
DirectGenres == {<<>>, <<Drama, Action>>, <<Action, <<" ">>, Drama>>}
DirectYears == {PyInt(1985), PyInt(1995)}
DirectOffsets == {0, PageSize}

\* the outcomes the two stores can give one call: the log store is not asked
\* when logged is set, the catalog store is not reached when the log store
\* fails, and it orders rows only when the query runs
Environments(logged, orders) ==
    {e \in [mongo : MongoOutcomes, db : DbOutcomes, order : orders] :
        /\ logged => e.mongo = "ok"
        /\ e.mongo # "ok" => e.db = "ok"
        /\ e.db # "ok" \/ e.mongo # "ok" => e.order = "asc"}

\* one call of a facade function, made at `clock`; an exception ends the caller
FacadeStep(fn, args, offset, logged, watch) ==
    /\ pc = "caller"
    /\ \E e \in Environments(logged, IF watch = "result" THEN RowOrders ELSE {"asc"}) :
          \E r \in {Facade(fn, args, offset, logged, clock, collection,
                           e.mongo, e.db, e.order)} :
              /\ collection' = r.store
              /\ openConns' = openConns + r.conns
              /\ openCursors' = openCursors + r.cursors
              /\ lastCall' = IF watch = "result"
                             THEN ObserveResult(fn, args, offset, logged, e, r)
                             ELSE ObserveLog(r)
              /\ pc' = IF r.raised THEN "raised" ELSE "caller"
    /\ UNCHANGED <<numFilms, clock, locals, session>>

\* time passes between two steps
Tick ==
    /\ clock < MaxTime
    /\ pc \notin {"raised", "exited", "interrupted", "crashed",
                 "pg_ended", "pg_declined", "pg_raised"}
    /\ clock' = clock + 1
    /\ UNCHANGED <<numFilms, collection, openConns, openCursors, pc, lastCall,
                   locals, session>>

HarnessInit(n) ==
    /\ numFilms = n
    /\ clock = 0
    /\ collection = <<>>
    /\ openConns = 0
    /\ openCursors = 0
    /\ pc = "caller"
    /\ lastCall = NoCall
    /\ locals = NoLocals
    /\ session = NoSession

(* a caller that keeps what each call returns *)
DirectKeyword ==
    \E keyword \in DirectKeywords, offset \in DirectOffsets, logged \in BOOLEAN :
        FacadeStep("keyword", [keyword |-> keyword], offset, logged, "result")

DirectGenreYear ==
    \E genres \in DirectGenres, offset \in DirectOffsets, logged \in BOOLEAN :
        FacadeStep("genre_year",
                   [genres |-> genres, year_from |-> 1985, year_to |-> 1995],
                   offset, logged, "result")

DirectGenreExactYear ==
    \E genres \in DirectGenres, year \in DirectYears,
       offset \in DirectOffsets, logged \in BOOLEAN :
        FacadeStep("genre_exact_year", [genres |-> genres, year |-> year],
                   offset, logged, "result")

FacadeInit == HarnessInit(MaxFilms)

FacadeNext == DirectKeyword \/ DirectGenreYear \/ DirectGenreExactYear

FacadeSpec == FacadeInit /\ [][FacadeNext]_vars

(* a caller that searches over time; the log store is what is watched *)
TimedKeyword ==
    \E keyword \in DirectKeywords, logged \in BOOLEAN :
        FacadeStep("keyword", [keyword |-> keyword], 0, logged, "logger")

TimedGenreYear ==
    \E genres \in DirectGenres, logged \in BOOLEAN :
        FacadeStep("genre_year",
                   [genres |-> genres, year_from |-> 1985, year_to |-> 1995],
                   0, logged, "logger")

TimedGenreExactYear ==
    \E genres \in DirectGenres, year \in DirectYears, logged \in BOOLEAN :
        FacadeStep("genre_exact_year", [genres |-> genres, year |-> year],
                   0, logged, "logger")

LoggerInit == HarnessInit(1)

LoggerNext == TimedKeyword \/ TimedGenreYear \/ TimedGenreExactYear \/ Tick

LoggerSpec == LoggerInit /\ [][LoggerNext]_vars

(* a caller that passes every kind of criteria; what the logger did is watched *)
EffectKeywords == {<<>>, <<" ">>, <<" ", "M", "a", " ">>}
EffectGenres == {<<>>, << <<" ">> >>, <<Drama>>}
EffectYears ==
    {PyInt(1985), PyInt(1995), PyNone, PyStr(<<"1", "9", "9", "5">>), PyStr(<<"x">>)}
LoggedFlags ==
    {[value |-> FALSE, positional |-> FALSE], [value |-> TRUE, positional |-> FALSE],
     [value |-> TRUE, positional |-> TRUE]}

\* what a facade call did to the log store and the operational log
ObserveEffect(fn, args, flag, mongo, r) ==
    [made |-> TRUE, fn |-> fn, args |-> args, flag |-> flag, mongo |-> mongo,
     asked |-> r.log.probe.type # "none", probed |-> r.log.probed,
     info |-> r.log.info, raised |-> r.raised]

\* one call of a facade function with the catalog store answering
EffectStep(fn, args, flag) ==
    /\ pc = "caller"
    /\ \E mongo \in IF KwargsLogged(flag) THEN {"ok"} ELSE MongoOutcomes :
          \E r \in {Facade(fn, args, 0, KwargsLogged(flag), clock, collection,
                           mongo, "ok", "asc")} :
              /\ collection' = r.store
              /\ openConns' = openConns + r.conns
              /\ openCursors' = openCursors + r.cursors
              /\ lastCall' = ObserveEffect(fn, args, flag, mongo, r)
              /\ pc' = IF r.raised THEN "raised" ELSE "caller"
    /\ UNCHANGED <<numFilms, clock, locals, session>>

EffectKeyword ==
    \E keyword \in EffectKeywords, flag \in LoggedFlags :
        EffectStep("keyword", [keyword |-> keyword], flag)

EffectGenreYear ==
    \E genres \in EffectGenres, flag \in LoggedFlags :
        EffectStep("genre_year",
                   [genres |-> genres, year_from |-> 1985, year_to |-> 1995], flag)

EffectGenreExactYear ==
    \E genres \in EffectGenres, year \in EffectYears, flag \in LoggedFlags :
        EffectStep("genre_exact_year", [genres |-> genres, year |-> year], flag)

EffectInit == HarnessInit(1)

EffectNext == EffectKeyword \/ EffectGenreYear \/ EffectGenreExactYear

EffectSpec == EffectInit /\ [][EffectNext]_vars

(* a caller that repeats one search in other spellings, over time *)
SpelledKeywords == {<<" ", "M", "a", " ">>, <<"m", "a">>}
SpelledGenres ==
    {<<Drama, Action>>, <<Action, <<" ">>, <<" ", "D", "r", "a", " ">>>>,
     << <<"d", "r", "a">>, Action>>}

\* what the call asked of the log store, and the call made before it
ObserveSpelled(fn, args, r) ==
    [made |-> TRUE, fn |-> fn, args |-> args, probed |-> r.log.probed,
     info |-> r.log.info,
     prev |-> IF lastCall.made
              THEN [fn |-> lastCall.fn, args |-> lastCall.args, info |-> lastCall.info]
              ELSE [fn |-> "none"]]

\* one call of a facade function at `clock`, both stores answering
SpelledStep(fn, args) ==
    /\ pc = "caller"
    /\ locals.fn = fn
    /\ \E r \in {Facade(fn, args, 0, FALSE, clock, collection, "ok", "ok", "asc")} :
          /\ collection' = r.store
          /\ openConns' = openConns + r.conns
          /\ openCursors' = openCursors + r.cursors
          /\ lastCall' = ObserveSpelled(fn, args, r)
    /\ UNCHANGED <<numFilms, clock, pc, locals, session>>

\* one direct call of a logging function at `clock`
LoggedDirectly(fn, args, lg) ==
    /\ pc = "caller"
    /\ locals.fn = fn
    /\ collection' = lg.store
    /\ lastCall' = ObserveSpelled(fn, args, [log |-> lg])
    /\ pc' = IF lg.raised THEN "raised" ELSE pc
    /\ UNCHANGED <<numFilms, clock, openConns, openCursors, locals, session>>

LogKeywordSearch ==
    \E keyword \in SpelledKeywords :
        LoggedDirectly("keyword", [keyword |-> keyword],
                       log_keyword_search(keyword, clock, collection, "ok"))

LogGenreYearSearch ==
    \E genres \in SpelledGenres :
        LoggedDirectly("genre_year",
                       [genres |-> genres, year_from |-> 1985, year_to |-> 1995],
                       log_genre_year_search(genres, 1985, 1995, clock, collection,
                                             "ok"))

SpelledKeyword ==
    \E keyword \in SpelledKeywords : SpelledStep("keyword", [keyword |-> keyword])

SpelledGenreYear ==
    \E genres \in SpelledGenres :
        SpelledStep("genre_year",
                    [genres |-> genres, year_from |-> 1985, year_to |-> 1995])

SpelledGenreExactYear ==
    \E genres \in SpelledGenres :
        SpelledStep("genre_exact_year", [genres |-> genres, year |-> PyInt(1995)])

\* the search the caller repeats is chosen once
NormalizeInit ==
    /\ numFilms = 1
    /\ clock = 0
    /\ collection = <<>>
    /\ openConns = 0
    /\ openCursors = 0
    /\ pc = "caller"
    /\ lastCall = NoCall
    /\ \E fn \in {"keyword", "genre_year", "genre_exact_year"} :
          locals = [h |-> "repeat", fn |-> fn]
    /\ session = NoSession

NormalizeNext ==
    \/ SpelledKeyword \/ SpelledGenreYear \/ SpelledGenreExactYear
    \/ LogKeywordSearch \/ LogGenreYearSearch
    \/ Tick

NormalizeSpec == NormalizeInit /\ [][NormalizeNext]_vars

(* a caller that logs one search through the facade and directly, over time *)
LoggedKeywords == {<<" ">>, <<" ", "M", "a", " ">>}
LoggedGenres == {<< <<" ">> >>, <<Drama>>}
LoggedYears == {PyInt(1985), PyInt(1995), PyNone, PyStr(<<"1", "9", "9", "5">>)}

DecoratedKeyword ==
    \E keyword \in LoggedKeywords : SpelledStep("keyword", [keyword |-> keyword])

DecoratedGenreYear ==
    \E genres \in LoggedGenres :
        SpelledStep("genre_year",
                    [genres |-> genres, year_from |-> 1985, year_to |-> 1995])

DecoratedGenreExactYear ==
    \E genres \in LoggedGenres, year \in LoggedYears :
        SpelledStep("genre_exact_year", [genres |-> genres, year |-> year])

DirectLogKeyword ==
    \E keyword \in LoggedKeywords :
        LoggedDirectly("keyword", [keyword |-> keyword],
                       log_keyword_search(keyword, clock, collection, "ok"))

DirectLogGenreYear ==
    \E genres \in LoggedGenres :
        LoggedDirectly("genre_year",
                       [genres |-> genres, year_from |-> 1985, year_to |-> 1995],
                       log_genre_year_search(genres, 1985, 1995, clock, collection,
                                             "ok"))

DirectLogGenreExactYear ==
    \E genres \in LoggedGenres, year \in LoggedYears :
        LoggedDirectly("genre_exact_year", [genres |-> genres, year |-> year],
                       log_genre_exact_year_search(genres, year, clock, collection,
                                                   "ok"))

StandaloneNext ==
    \/ DecoratedKeyword \/ DecoratedGenreYear \/ DecoratedGenreExactYear
    \/ DirectLogKeyword \/ DirectLogGenreYear \/ DirectLogGenreExactYear
    \/ Tick

StandaloneSpec == NormalizeInit /\ [][StandaloneNext]_vars

(* a caller that repeats one and the same event, over time *)
\* when the event was requested and whether it was stored, and the same of
\* the request before
ObserveStream(lg) ==
    [made |-> TRUE, at |-> clock, info |-> lg.info,
     prev |-> IF lastCall.made THEN [made |-> TRUE, at |-> lastCall.at,
                                     info |-> lastCall.info]
              ELSE [made |-> FALSE]]

\* search_by_keyword("ma") through the decorator
StreamKeyword ==
    /\ pc = "caller"
    /\ locals.fn = "keyword"
    /\ \E r \in {Facade("keyword", [keyword |-> <<"m", "a">>], 0, FALSE, clock,
                        collection, "ok", "ok", "asc")} :
          /\ collection' = r.store
          /\ openConns' = openConns + r.conns
          /\ openCursors' = openCursors + r.cursors
          /\ lastCall' = ObserveStream(r.log)
    /\ UNCHANGED <<numFilms, clock, pc, locals, session>>

\* log_genre_year_search(["Dra"], 1985, 1995)
StreamGenreYear ==
    /\ pc = "caller"
    /\ locals.fn = "genre_year"
    /\ \E lg \in {log_genre_year_search(<<Drama>>, 1985, 1995, clock, collection,
                                         "ok")} :
          /\ collection' = lg.store
          /\ lastCall' = ObserveStream(lg)
    /\ UNCHANGED <<numFilms, clock, openConns, openCursors, pc, locals, session>>

StreamInit ==
    /\ numFilms = 1
    /\ clock = 0
    /\ collection = <<>>
    /\ openConns = 0
    /\ openCursors = 0
    /\ pc = "caller"
    /\ lastCall = NoCall
    /\ \E fn \in {"keyword", "genre_year"} : locals = [h |-> "repeat", fn |-> fn]
    /\ session = NoSession

StreamNext == StreamKeyword \/ StreamGenreYear \/ Tick

StreamSpec == StreamInit /\ [][StreamNext]_vars

(* ------------------- the statistics readers (log_stats) ---------------- *)
StatsLimit == 5

\* "$nin": [None, "", "?", "-"]
Placeholders == {<<>>, <<"?">>, <<"-">>}

\* the sequences that list every group once, larger counts first; the order
\* of equal counts is the store's
SortedByCount(groups) ==
    {q \in [1..Cardinality(groups) -> groups] :
        /\ \A i, j \in DOMAIN q : q[i] = q[j] => i = j
        /\ \A i, j \in DOMAIN q : i < j => q[i].count >= q[j].count}

Limit(q, limit) == SubSeq(q, 1, IF Len(q) < limit THEN Len(q) ELSE limit)

\* get_top_keywords: $match, $group by keyword, $sort by count, $limit
get_top_keywords(store, limit) ==
    LET matched == {i \in 1..Len(store) :
                       /\ store[i].type = "keyword"
                       /\ store[i].keyword \notin Placeholders}
        groups == {[id |-> store[i].keyword,
                    count |-> Cardinality({j \in matched :
                                              store[j].keyword = store[i].keyword})] :
                   i \in matched}
    IN  {Limit(q, limit) : q \in SortedByCount(groups)}

\* get_top_genres: $match type genre_year, $unwind genres, $group, $sort, $limit
get_top_genres(store, limit) ==
    LET matched == {i \in 1..Len(store) :
                       /\ store[i].type = "genre_year"
                       /\ Range(store[i].genres) \cap Placeholders = {}}
        unwound == UNION {{<<i, k>> : k \in 1..Len(store[i].genres)} : i \in matched}
        name(x) == store[x[1]].genres[x[2]]
        groups == {[id |-> name(x),
                    count |-> Cardinality({y \in unwound : name(y) = name(x)})] :
                   x \in unwound}
    IN  {Limit(q, limit) : q \in SortedByCount(groups)}

\* get_last_searches: find({}, projection).sort("timestamp", -1).limit(limit)
get_last_searches(store, limit) ==
    LET sorted_desc == {q \in [1..Len(store) -> 1..Len(store)] :
                           /\ \A i, j \in DOMAIN q : q[i] = q[j] => i = j
                           /\ \A i, j \in DOMAIN q :
                                 i < j => store[q[i]].timestamp >= store[q[j]].timestamp}
    IN  {Limit([i \in 1..Len(store) |-> store[q[i]]], limit) : q \in sorted_desc}

\* one reader called at `clock`; an exception of the log store is not caught
ReadStats(fn, results) ==
    /\ pc = "caller"
    /\ \E mongo \in {"ok", "find_fails"} :
          IF mongo = "ok"
          THEN /\ \E result \in results :
                     lastCall' = [made |-> TRUE, fn |-> fn, result |-> result]
               /\ pc' = pc
          ELSE /\ lastCall' = [made |-> TRUE, fn |-> fn, result |-> <<>>]
               /\ pc' = "raised"
    /\ UNCHANGED <<numFilms, clock, collection, openConns, openCursors, locals,
                   session>>

TopKeywords == ReadStats("get_top_keywords", get_top_keywords(collection, StatsLimit))

TopGenres == ReadStats("get_top_genres", get_top_genres(collection, StatsLimit))

LastSearches ==
    ReadStats("get_last_searches", get_last_searches(collection, StatsLimit))

\* the searches whose log entries the readers count
StatsKeyword == FacadeStep("keyword", [keyword |-> <<"m", "a">>], 0, FALSE, "logger")

StatsGenreYear ==
    FacadeStep("genre_year",
               [genres |-> <<Drama, Action>>, year_from |-> 1985, year_to |-> 1995],
               0, FALSE, "logger")

StatsInit == HarnessInit(1)

StatsNext ==
    \/ StatsKeyword \/ StatsGenreYear
    \/ TopKeywords \/ TopGenres \/ LastSearches
    \/ Tick

StatsSpec == StatsInit /\ [][StatsNext]_vars

(* two processes that log the same event through one log store *)
Processes == {1, 2}

\* the keyword each process searches: one event after normalization
RaceKeywords == <<<<" ", "M", "a", " ">>, <<"m", "a">>>>

RaceProbe(p) == [type |-> "keyword", keyword |-> NormalizeKeyword(RaceKeywords[p])]

\* an insert that asks the store again before it writes
InsertIfStillAbsent(store, probe, now, recent) ==
    IF recent \/ find_one(store, probe, now) THEN store
    ELSE Append(store, WithTimestamp(probe, now))

\* if not recent: collection.insert_one({..., "timestamp": now})
InsertIfNotRecent(store, probe, now, recent) ==
    IF recent THEN store ELSE Append(store, WithTimestamp(probe, now))

Proc(p) == locals.procs[p]

ProcStep(p, at, now, recent) ==
    /\ locals' = [locals EXCEPT !.procs[p] = [at |-> at, now |-> now, recent |-> recent]]
    /\ UNCHANGED <<numFilms, clock, openConns, openCursors, pc, lastCall, session>>

\* now = datetime.utcnow()
ReadNow(p) ==
    /\ pc = "racing"
    /\ Proc(p).at = "start"
    /\ ProcStep(p, "find", clock, FALSE)
    /\ UNCHANGED collection

\* recent = collection.find_one({...})
FindOne(p) ==
    /\ pc = "racing"
    /\ Proc(p).at = "find"
    /\ ProcStep(p, "insert", Proc(p).now,
                find_one(collection, RaceProbe(p), Proc(p).now))
    /\ UNCHANGED collection

\* if not recent: collection.insert_one({...})
InsertOne(p) ==
    /\ pc = "racing"
    /\ Proc(p).at = "insert"
    /\ collection' = InsertIfNotRecent(collection, RaceProbe(p), Proc(p).now,
                                       Proc(p).recent)
    /\ ProcStep(p, "done", Proc(p).now, Proc(p).recent)

RaceInit ==
    /\ numFilms = 1
    /\ clock = 0
    /\ collection = <<>>
    /\ openConns = 0
    /\ openCursors = 0
    /\ pc = "racing"
    /\ lastCall = NoCall
    /\ locals = [h |-> "race",
                 procs |-> [p \in Processes |->
                               [at |-> "start", now |-> 0, recent |-> FALSE]]]
    /\ session = NoSession

RaceNext ==
    \/ \E p \in Processes : ReadNow(p)
    \/ \E p \in Processes : FindOne(p)
    \/ \E p \in Processes : InsertOne(p)
    \/ Tick

RaceSpec == RaceInit /\ [][RaceNext]_vars

(* --------- a caller of the query builder's two genre searches ---------- *)
QueryGenres ==
    {<<>>, <<Drama>>, <<Drama, Action>>, <<Western, <<" ", "A", "c", "t", " ">>>>}
QueryYearRanges == {<<1985, 2005>>, <<1995, 1995>>, <<1995, 2005>>, <<2005, 1985>>}
QueryYears == {PyInt(1995), PyInt(2005), PyNone}
QueryOffsets == {0, PageSize, 2 * PageSize}

\* what a query builder call returned
ObserveQuery(fn, args, offset, db, order, q) ==
    [made |-> TRUE, fn |-> fn, args |-> args, offset |-> offset, db |-> db,
     order |-> order, raised |-> q.raised, ret |-> q.ret]

\* one call of a query builder function; an exception ends the caller
QueryStep(fn, args, offset) ==
    /\ pc = "caller"
    /\ \E e \in Environments(TRUE, RowOrders) :
          \E q \in {SqlSearch(fn, args, offset, e.db, e.order)} :
              /\ openConns' = openConns + q.conns
              /\ openCursors' = openCursors + q.cursors
              /\ lastCall' = ObserveQuery(fn, args, offset, e.db, e.order, q)
              /\ pc' = IF q.raised THEN "raised" ELSE "caller"
    /\ UNCHANGED <<numFilms, clock, collection, locals, session>>

QueryGenreYear ==
    \E genres \in QueryGenres, years \in QueryYearRanges, offset \in QueryOffsets :
        QueryStep("genre_year",
                  [genres |-> genres, year_from |-> years[1], year_to |-> years[2]],
                  offset)

QueryGenreExactYear ==
    \E genres \in QueryGenres, year \in QueryYears, offset \in QueryOffsets :
        QueryStep("genre_exact_year", [genres |-> genres, year |-> year], offset)

QueryInit == \E n \in Catalogs : HarnessInit(n)

QueryNext == QueryGenreYear \/ QueryGenreExactYear

QuerySpec == QueryInit /\ [][QueryNext]_vars

(* ------------- a caller that reads a search page after page ------------ *)
PagedSearches ==
    {[fn |-> "keyword", args |-> [keyword |-> <<"m", "a">>]],
     [fn |-> "keyword", args |-> [keyword |-> <<"m", "a", "d">>]],
     [fn |-> "genre_year",
      args |-> [genres |-> <<Drama, Action>>, year_from |-> 1985, year_to |-> 2005]],
     [fn |-> "genre_year",
      args |-> [genres |-> <<Action>>, year_from |-> 1985, year_to |-> 2005]],
     [fn |-> "genre_year",
      args |-> [genres |-> <<Drama>>, year_from |-> 1995, year_to |-> 2005]],
     [fn |-> "genre_exact_year",
      args |-> [genres |-> <<Drama, Action>>, year |-> PyInt(1995)]],
     [fn |-> "genre_exact_year",
      args |-> [genres |-> <<Action>>, year |-> PyInt(2005)]]}

\* the movies of a result, a list or the "movies" of a dict
Movies(ret) == ret.movies

\* the next page of the search, at the offset after the pages read so far; the
\* store picks the row order of this query
FetchPage ==
    /\ pc = "caller"
    /\ ~locals.done
    /\ \E order \in RowOrders :
          \E q \in {SqlSearch(locals.fn, locals.args, locals.offset, "ok", order)} :
              /\ openConns' = openConns + q.conns
              /\ openCursors' = openCursors + q.cursors
              /\ lastCall' = ObserveQuery(locals.fn, locals.args, locals.offset,
                                          "ok", order, q)
              /\ locals' = [locals EXCEPT
                               !.offset = @ + PageSize,
                               !.seen = @ \o [i \in 1..Len(Movies(q.ret)) |->
                                                Movies(q.ret)[i].film],
                               !.done = Movies(q.ret) = <<>>]
    /\ UNCHANGED <<numFilms, clock, collection, pc, session>>

PagesInit ==
    /\ numFilms \in Catalogs
    /\ clock = 0
    /\ collection = <<>>
    /\ openConns = 0
    /\ openCursors = 0
    /\ pc = "caller"
    /\ lastCall = NoCall
    /\ \E search \in PagedSearches :
          locals = [h |-> "pages", fn |-> search.fn, args |-> search.args,
                    offset |-> 0, seen |-> <<>>, done |-> FALSE]
    /\ session = NoSession

PagesNext == FetchPage

PagesSpec == PagesInit /\ [][PagesNext]_vars

(* ------------------- reference data (mysql_connector) ------------------ *)
\* the category table, by name
Categories ==
    <<[category_id |-> 1, name |-> Action],
      [category_id |-> 7, name |-> Drama],
      [category_id |-> 16, name |-> Western]>>

DefaultYears == [none |-> FALSE, lo |-> 1990, hi |-> 2025]

\* the row (None, None) that MIN and MAX give over no film
NoYears == [none |-> TRUE]

CatalogYears == {ReleaseYear(f) : f \in 1..numFilms}

\* mysql_connector.get_year_range: `result if result else (1990, 2025)`, and a
\* row of two None is not empty
get_year_range(db) ==
    TryQuery(db, FALSE,
             IF numFilms = 0 THEN NoYears
             ELSE [none |-> FALSE,
                   lo |-> CHOOSE y \in CatalogYears : \A z \in CatalogYears : y <= z,
                   hi |-> CHOOSE y \in CatalogYears : \A z \in CatalogYears : z <= y],
             DefaultYears)

\* mysql_connector.get_genres_with_ids: category JOIN film_category ORDER BY name
get_genres_with_ids(db) ==
    TryQuery(db, FALSE,
             SelectSeq(Categories,
                       LAMBDA c : \E f \in 1..numFilms : c.name \in FilmGenres(f)),
             <<>>)

(* --------------------------- input_utils ------------------------------- *)
\* sanitize_input: re.sub(r"[^\w\s\-]", "", text).strip(); <<>> stands for None
sanitize_input(text) == Strip(SelectSeq(text, LAMBDA c : c # "!"))

\* prompt_next_page, one round: input().strip().lower()
NextPageResponse(raw) == Lower(Strip(raw))

\* select_genres, one round of its loop on the parsed input
select_genres(genres_map, input) ==
    LET valid_ids == {genres_map[i].category_id : i \in 1..Len(genres_map)}
        names(m) == [i \in 1..Len(m) |-> m[i].name]
    IN  IF ~input.numbers THEN [retry |-> TRUE, names |-> <<>>]
        ELSE IF input.ids = <<0>> THEN [retry |-> FALSE, names |-> names(genres_map)]
        ELSE IF \E i \in 1..Len(input.ids) : input.ids[i] \notin valid_ids
        THEN [retry |-> TRUE, names |-> <<>>]
        ELSE [retry |-> FALSE,
              names |-> names(SelectSeq(genres_map,
                                        LAMBDA g : g.category_id \in Range(input.ids)))]

\* prompt_valid_year, one round of its loop: int() of a text that isdigit()
\* accepts and that is no decimal number raises ValueError, and comparing with
\* None raises TypeError
prompt_valid_year(input, year_from, year_to) ==
    IF ~input.digits THEN [retry |-> TRUE, raised |-> FALSE, year |-> 0]
    ELSE IF ~input.decimal THEN [retry |-> FALSE, raised |-> TRUE, year |-> 0]
    ELSE IF year_from.none THEN [retry |-> FALSE, raised |-> TRUE, year |-> 0]
    ELSE IF year_from.lo <= input.value /\ input.value <= year_to.hi
    THEN [retry |-> FALSE, raised |-> FALSE, year |-> input.value]
    ELSE [retry |-> TRUE, raised |-> FALSE, year |-> 0]

(* ------------------- what the user can type ---------------------------- *)
MenuChoices == {<<"1">>, <<" ", "2">>, <<"3">>, <<"4">>, <<"9">>}
RawKeywords == {<<>>, <<"!">>, <<" ", "M", "a", "!">>}
Answers == {<<"y">>, <<" ", "Y">>, <<"n">>, <<"x">>}
ModeInputs == {<<"1">>, <<"2">>, <<"x">>}
GenreInputs ==
    {[numbers |-> FALSE, ids |-> <<>>], [numbers |-> TRUE, ids |-> <<0>>],
     [numbers |-> TRUE, ids |-> <<7, 1>>], [numbers |-> TRUE, ids |-> <<2>>]}
\* a text that is not all digits, the decimal text of v, and a text of digit
\* characters that are not decimal (a superscript two)
NotDigits == [digits |-> FALSE, decimal |-> FALSE, value |-> 0]
Digits(v) == [digits |-> TRUE, decimal |-> TRUE, value |-> v]
DigitsNotDecimal == [digits |-> TRUE, decimal |-> FALSE, value |-> 0]
YearFromInputs == {NotDigits, Digits(1985), Digits(1995), Digits(2030)}
YearToInputs == {NotDigits, Digits(1985), Digits(2030)}
ExactYearInputs == {NotDigits, Digits(1985), Digits(1995)}
\* years typed by a user who also tries what the prompts should turn away
BoundaryYears == {NotDigits, DigitsNotDecimal, Digits(1985), Digits(1995), Digits(2015)}

(* ------------------------------ formatter ------------------------------ *)
TableColumns == 4

\* format_genres_table: the cells of the printed table, f"{idx + 1}. {genre}" at
\* row idx % rows and column idx // rows
format_genres_table(genres, columns) ==
    LET rows == (Len(genres) + columns - 1) \div columns
    IN  [i \in 1..Len(genres) |->
            [number |-> i, name |-> genres[i],
             row |-> (i - 1) % rows, col |-> (i - 1) \div rows]]

(* ------- a user who picks genres by the numbers of the printed table ---- *)
CategoryNames == <<Action, Drama, Western>>
CategoryIds == {1, 2, 3, 7}

\* the category tables of one to three genres, ordered by name, under every
\* assignment of distinct ids
GenreCatalogs ==
    UNION {{[i \in 1..n |-> [category_id |-> ids[i], name |-> CategoryNames[i]]] :
               ids \in {f \in [1..n -> CategoryIds] :
                           \A a, b \in 1..n : f[a] = f[b] => a = b}} :
           n \in 1..Len(CategoryNames)}

\* genre_names = [genre["name"] for genre in genres_map];
\* format_genres_table(genre_names)
ShowGenres ==
    /\ pc = "caller"
    /\ locals.shown = <<>>
    /\ locals' = [locals EXCEPT !.shown =
                      format_genres_table([i \in 1..Len(locals.genres_map) |->
                                              locals.genres_map[i].name],
                                          TableColumns)]
    /\ UNCHANGED <<numFilms, clock, collection, openConns, openCursors, pc,
                   lastCall, session>>

\* the user types the numbers printed next to the genres of their choice
SelectShown ==
    /\ pc = "caller"
    /\ locals.shown # <<>>
    /\ \E cells \in SUBSET (1..Len(locals.shown)) \ {{}} :
          LET picked == SelectSeq(locals.shown, LAMBDA c : c.number \in cells)
              typed == [i \in 1..Len(picked) |-> picked[i].number]
              r == select_genres(locals.genres_map, [numbers |-> TRUE, ids |-> typed])
          IN  lastCall' = [made |-> TRUE, typed |-> typed,
                           wanted |-> {picked[i].name : i \in 1..Len(picked)},
                           retry |-> r.retry, names |-> r.names]
    /\ UNCHANGED <<numFilms, clock, collection, openConns, openCursors, pc, locals,
                   session>>

\* the user types 0
SelectAll ==
    /\ pc = "caller"
    /\ locals.shown # <<>>
    /\ \E r \in {select_genres(locals.genres_map, [numbers |-> TRUE, ids |-> <<0>>])} :
          lastCall' = [made |-> TRUE, typed |-> <<0>>,
                       wanted |-> {locals.shown[i].name : i \in 1..Len(locals.shown)},
                       retry |-> r.retry, names |-> r.names]
    /\ UNCHANGED <<numFilms, clock, collection, openConns, openCursors, pc, locals,
                   session>>

GenreTableInit ==
    /\ numFilms = 0
    /\ clock = 0
    /\ collection = <<>>
    /\ openConns = 0
    /\ openCursors = 0
    /\ pc = "caller"
    /\ lastCall = NoCall
    /\ \E genres_map \in GenreCatalogs :
          locals = [h |-> "table", genres_map |-> genres_map, shown |-> <<>>]
    /\ session = NoSession

GenreTableNext == ShowGenres \/ SelectShown \/ SelectAll

GenreTableSpec == GenreTableInit /\ [][GenreTableNext]_vars

(* ----------------- the interactive controller (ui_controller) ---------- *)
LoggedAfterFetchKept(logged) == logged

\* `logged = True` after the fetch of a page
LoggedAfterFetch(logged) == TRUE

\* the handler returns to run_app's loop
ToMenu == pc' = "returned" /\ locals' = NoLocals

Crash == pc' = "crashed" /\ locals' = NoLocals

\* the session so far, after one more page fetch, made at `offset` with
\* `logged`, ended as r
NoteFetch(sess, fn, args, offset, logged, e, r) ==
    [fn |-> fn, args |-> args,
     flags |-> Append(sess.flags, logged),
     offsets |-> Append(sess.offsets, offset),
     sizes |-> IF r.raised THEN sess.sizes ELSE Append(sess.sizes, Len(r.ret.movies)),
     inserts |-> sess.inserts + (Len(r.store) - Len(collection)),
     failed |-> sess.failed \/ e.mongo # "ok" \/ e.db # "ok",
     signal |-> sess.signal]

\* what a handler prints when a page comes back empty: the keyword handler
\* tells offset 0 from later offsets, the genre handler does not
EndMessage(fn, offset) ==
    IF fn = "keyword" /\ offset = 0 THEN "not_found" ELSE "no_more"

\* one iteration of a handler's page loop, up to the continue prompt: the
\* search, `logged = True`, the empty-page test, the page shown
PageLoop(fn, args, offset, logged, sess, prompt_pc, rec) ==
    \E e \in Environments(logged, RowOrders) :
      \E r \in {Facade(fn, args, offset, logged, clock, collection,
                       e.mongo, e.db, e.order)} :
        /\ collection' = r.store
        /\ openConns' = openConns + r.conns
        /\ openCursors' = openCursors + r.cursors
        /\ session' = LET noted == NoteFetch(sess, fn, args, offset, logged, e, r)
                       IN  IF ~r.raised /\ r.ret.movies = <<>>
                           THEN [noted EXCEPT !.signal = EndMessage(fn, offset)]
                           ELSE noted
        /\ IF r.raised THEN Crash
           ELSE IF r.ret.movies = <<>> THEN ToMenu
           ELSE /\ pc' = prompt_pc
                /\ locals' = [rec EXCEPT !.logged = LoggedAfterFetch(logged)]
        /\ UNCHANGED <<numFilms, clock, lastCall>>

Chose(choice) == pc = "menu" /\ \E raw \in MenuChoices : Strip(raw) = choice

\* run_app, choice "1": handle_keyword_search waits for the keyword
MenuKeyword ==
    /\ Chose(<<"1">>)
    /\ pc' = "kw_input"
    /\ session' = NoSession
    /\ UNCHANGED <<numFilms, clock, collection, openConns, openCursors, lastCall,
                   locals>>

\* handle_keyword_search, from the keyword to the first continue prompt
KeywordInput ==
    /\ pc = "kw_input"
    /\ \E raw \in RawKeywords :
          LET keyword == sanitize_input(raw) IN
          IF keyword = <<>>
          THEN /\ ToMenu
               /\ UNCHANGED <<numFilms, clock, collection, openConns, openCursors,
                              lastCall, session>>
          ELSE PageLoop("keyword", [keyword |-> keyword], 0, FALSE, NoSession,
                        "kw_prompt",
                        [h |-> "keyword", keyword |-> keyword, offset |-> 0,
                         logged |-> FALSE])

\* one answer to a continue prompt: anything but y or n is asked again
Continue(prompt_pc, fn, args, offset, rec) ==
    /\ pc = prompt_pc
    /\ \E raw \in Answers :
          LET response == NextPageResponse(raw) IN
          IF response \notin {<<"y">>, <<"n">>} THEN UNCHANGED vars
          ELSE IF response # <<"y">>
          THEN /\ ToMenu
               /\ UNCHANGED <<numFilms, clock, collection, openConns, openCursors,
                              lastCall, session>>
          ELSE PageLoop(fn, args, offset, locals.logged, session, prompt_pc, rec)

\* handle_keyword_search: `offset += 10` and the next page
KeywordContinue ==
    /\ pc = "kw_prompt"
    /\ Continue("kw_prompt", "keyword", [keyword |-> locals.keyword],
                locals.offset + PageSize,
                [locals EXCEPT !.offset = locals.offset + PageSize])

\* run_app, choice "2": handle_genre_year_search loads the year range and the
\* genres, then waits for the genre numbers
MenuGenre ==
    /\ Chose(<<"2">>)
    /\ \E db1 \in DbOutcomes, db2 \in DbOutcomes :
          LET years == get_year_range(db1)
              genres == get_genres_with_ids(db2)
          IN  IF years.raised
              THEN /\ Crash
                   /\ openConns' = openConns + years.conns
                   /\ openCursors' = openCursors + years.cursors
              ELSE IF genres.raised
              THEN /\ Crash
                   /\ openConns' = openConns + genres.conns
                   /\ openCursors' = openCursors + genres.cursors
              ELSE /\ pc' = "select"
                   /\ locals' = [h |-> "genre", year_from |-> years.ret,
                                 year_to |-> years.ret, genres_map |-> genres.ret]
                   /\ UNCHANGED <<openConns, openCursors>>
    /\ session' = NoSession
    /\ UNCHANGED <<numFilms, clock, collection, lastCall>>

\* select_genres, then `if not selected_genres: return`
SelectGenres ==
    /\ pc = "select"
    /\ \E input \in GenreInputs :
          LET sel == select_genres(locals.genres_map, input) IN
          IF sel.retry THEN UNCHANGED <<pc, locals>>
          ELSE IF sel.names = <<>> THEN ToMenu
          ELSE /\ pc' = "mode"
               /\ locals' = [h |-> "genre", year_from |-> locals.year_from,
                             year_to |-> locals.year_to,
                             genres_map |-> locals.genres_map,
                             selected_genres |-> sel.names]
    /\ UNCHANGED <<numFilms, clock, collection, openConns, openCursors, lastCall,
                   session>>

\* mode = input(...).strip()
ModeInput ==
    /\ pc = "mode"
    /\ \E raw \in ModeInputs :
          LET mode == Strip(raw) IN
          IF mode = <<"1">> THEN pc' = "year_from" /\ locals' = locals
          ELSE IF mode = <<"2">> THEN pc' = "exact_year" /\ locals' = locals
          ELSE ToMenu
    /\ UNCHANGED <<numFilms, clock, collection, openConns, openCursors, lastCall,
                   session>>

\* year_start = prompt_valid_year(...)
YearFromInput ==
    /\ pc = "year_from"
    /\ \E input \in YearFromInputs :
          LET y == prompt_valid_year(input, locals.year_from, locals.year_to) IN
          IF y.raised THEN Crash
          ELSE IF y.retry THEN UNCHANGED <<pc, locals>>
          ELSE /\ pc' = "year_to"
               /\ locals' = [h |-> "genre_year", year_from |-> locals.year_from,
                             year_to |-> locals.year_to,
                             selected_genres |-> locals.selected_genres,
                             year_start |-> y.year]
    /\ UNCHANGED <<numFilms, clock, collection, openConns, openCursors, lastCall,
                   session>>

GenreYearArgs(l, year_end) ==
    [genres |-> l.selected_genres, year_from |-> l.year_start, year_to |-> year_end]

\* a test that lets every pair of years through
BadRangeNever(year_start, year_end) == FALSE

\* if year_start > year_end: print(...); return
BadRange(year_start, year_end) == year_start > year_end

\* year_end = prompt_valid_year(...), the year_start > year_end test, and the
\* first page of the range search
YearToInput ==
    /\ pc = "year_to"
    /\ \E input \in YearToInputs :
          LET y == prompt_valid_year(input, locals.year_from, locals.year_to) IN
          IF y.raised
          THEN /\ Crash
               /\ UNCHANGED <<numFilms, clock, collection, openConns, openCursors,
                              lastCall, session>>
          ELSE IF y.retry THEN UNCHANGED vars
          ELSE IF BadRange(locals.year_start, y.year)
          THEN /\ ToMenu
               /\ session' = [NoSession EXCEPT
                                 !.fn = "genre_year",
                                 !.args = GenreYearArgs(locals, y.year),
                                 !.signal = "bad_range"]
               /\ UNCHANGED <<numFilms, clock, collection, openConns, openCursors,
                              lastCall>>
          ELSE PageLoop("genre_year", GenreYearArgs(locals, y.year), (1 - 1) * PageSize,
                        FALSE, NoSession, "gy_prompt",
                        [h |-> "genre_year",
                         selected_genres |-> locals.selected_genres,
                         year_start |-> locals.year_start, year_end |-> y.year,
                         page |-> 1, logged |-> FALSE])

\* handle_genre_year_search, range mode: `page += 1` and the next page
GenreYearContinue ==
    /\ pc = "gy_prompt"
    /\ Continue("gy_prompt", "genre_year", GenreYearArgs(locals, locals.year_end),
                ((locals.page + 1) - 1) * PageSize,
                [locals EXCEPT !.page = locals.page + 1])

GenreExactArgs(l, year) == [genres |-> l.selected_genres, year |-> PyInt(year)]

\* exact_year = prompt_valid_year(...) and the first page of the exact search
ExactYearEntered(inputs) ==
    /\ pc = "exact_year"
    /\ \E input \in inputs :
          LET y == prompt_valid_year(input, locals.year_from, locals.year_to) IN
          IF y.raised
          THEN /\ Crash
               /\ UNCHANGED <<numFilms, clock, collection, openConns, openCursors,
                              lastCall, session>>
          ELSE IF y.retry THEN UNCHANGED vars
          ELSE PageLoop("genre_exact_year", GenreExactArgs(locals, y.year),
                        (1 - 1) * PageSize, FALSE, NoSession, "gx_prompt",
                        [h |-> "genre_exact_year",
                         selected_genres |-> locals.selected_genres,
                         exact_year |-> y.year,
                         page |-> 1, logged |-> FALSE])

ExactYearInput == ExactYearEntered(ExactYearInputs)

\* handle_genre_year_search, exact mode: `page += 1` and the next page
ExactYearContinue ==
    /\ pc = "gx_prompt"
    /\ Continue("gx_prompt", "genre_exact_year",
                GenreExactArgs(locals, locals.exact_year),
                ((locals.page + 1) - 1) * PageSize,
                [locals EXCEPT !.page = locals.page + 1])

\* run_app, choice "3": handle_statistics reads the log store three times; an
\* exception of the log store is not caught
MenuStatistics ==
    /\ Chose(<<"3">>)
    /\ \E mongo \in {"ok", "find_fails"} :
          IF mongo = "ok" THEN ToMenu ELSE Crash
    /\ session' = NoSession
    /\ UNCHANGED <<numFilms, clock, collection, openConns, openCursors, lastCall>>

\* run_app: the next iteration of `while True` prints the menu and asks
MenuAgain ==
    /\ pc = "returned"
    /\ pc' = "menu"
    /\ session' = NoSession
    /\ UNCHANGED <<numFilms, clock, collection, openConns, openCursors, lastCall,
                   locals>>

\* run_app, choice "4"
MenuExit ==
    /\ Chose(<<"4">>)
    /\ pc' = "exited"
    /\ session' = NoSession
    /\ UNCHANGED <<numFilms, clock, collection, openConns, openCursors, lastCall,
                   locals>>

\* run_app, any other choice: the menu is shown again
MenuInvalid ==
    /\ pc = "menu"
    /\ \E raw \in MenuChoices :
          Strip(raw) \notin {<<"1">>, <<"2">>, <<"3">>, <<"4">>}
    /\ UNCHANGED vars

InputPcs ==
    {"menu", "kw_input", "kw_prompt", "select", "mode", "year_from", "year_to",
     "exact_year", "gy_prompt", "gx_prompt"}

\* KeyboardInterrupt at an input(): run_app catches it at the menu prompt only
Interrupt ==
    /\ pc \in InputPcs
    /\ pc' = IF pc = "menu" THEN "exited" ELSE "interrupted"
    /\ locals' = NoLocals
    /\ session' = NoSession
    /\ UNCHANGED <<numFilms, clock, collection, openConns, openCursors, lastCall>>

Init ==
    /\ numFilms \in Catalogs
    /\ clock = 0
    /\ collection = <<>>
    /\ openConns = 0
    /\ openCursors = 0
    /\ pc = "menu"
    /\ lastCall = NoCall
    /\ locals = NoLocals
    /\ session = NoSession

Next ==
    \/ MenuKeyword \/ KeywordInput \/ KeywordContinue
    \/ MenuGenre \/ SelectGenres \/ ModeInput
    \/ YearFromInput \/ YearToInput \/ GenreYearContinue
    \/ ExactYearInput \/ ExactYearContinue
    \/ MenuStatistics \/ MenuAgain \/ MenuExit \/ MenuInvalid \/ Interrupt \/ Tick

Spec == Init /\ [][Next]_vars

(* the controller at one instant, with a user who tries every kind of exact year *)
ExactYearAnyInput == ExactYearEntered(BoundaryYears)

BoundaryNext ==
    \/ MenuKeyword \/ KeywordInput \/ KeywordContinue
    \/ MenuGenre \/ SelectGenres \/ ModeInput
    \/ YearFromInput \/ YearToInput \/ GenreYearContinue
    \/ ExactYearAnyInput \/ ExactYearContinue
    \/ MenuStatistics \/ MenuAgain \/ MenuExit \/ MenuInvalid \/ Interrupt

BoundarySpec == Init /\ [][BoundaryNext]_vars

(* ------------------------ the paginator (pagination) ------------------- *)
\* `not results`: an empty list is false, a dict with keys is true
Falsy(results) == results.kind = "list" /\ results.movies = <<>>

\* formatter.format_movies_table: `movies[start:end]` raises for a dict
format_movies_table(movies) == [raised |-> movies.kind = "dict"]

\* the `logged` a facade function gets from fetch_function(*fetch_args,
\* offset=offset): kwargs.get("logged", False)
PaginateLogged == FALSE

FetchFunctions ==
    {[fn |-> "keyword", args |-> [keyword |-> <<"m", "a">>]],
     [fn |-> "genre_year",
      args |-> [genres |-> <<Drama, Action>>, year_from |-> 1985, year_to |-> 1995]],
     [fn |-> "genre_exact_year", args |-> [genres |-> <<Drama>>, year |-> PyInt(1995)]]}

\* start_offset: the default, and a session resumed at the second page
StartOffsets == {0, PageSize}

\* page_num = offset // 10 + 1
PageNumber(offset) == offset \div PageSize + 1

NextOffsetSkip(offset) == offset + 2 * PageSize

\* offset += 10
NextOffset(offset) == offset + PageSize

\* paginate_results, one iteration of its loop up to the continue prompt
PaginateFetch ==
    /\ pc = "pg_fetch"
    /\ \E e \in Environments(PaginateLogged, RowOrders) :
        \E r \in {Facade(locals.fn, locals.args, locals.offset, PaginateLogged,
                         clock, collection, e.mongo, e.db, e.order)} :
          /\ collection' = r.store
          /\ openConns' = openConns + r.conns
          /\ openCursors' = openCursors + r.cursors
          /\ session' = NoteFetch(session, locals.fn, locals.args, locals.offset,
                                   PaginateLogged, e, r)
          /\ IF r.raised
             THEN /\ pc' = "pg_raised"
                  /\ locals' = [locals EXCEPT !.results = NoValue, !.out = "none"]
             ELSE IF Falsy(r.ret)
             THEN /\ pc' = "pg_ended"
                  /\ locals' = [locals EXCEPT
                                  !.results = r.ret,
                                  !.out = IF locals.offset = 0 THEN "nothing_found"
                                          ELSE "no_more"]
             ELSE IF format_movies_table(r.ret).raised
             THEN /\ pc' = "pg_raised"
                  /\ locals' = [locals EXCEPT !.results = r.ret, !.out = "header",
                                              !.page_num = PageNumber(locals.offset)]
             ELSE /\ pc' = "pg_prompt"
                  /\ locals' = [locals EXCEPT !.results = r.ret, !.out = "page",
                                              !.page_num = PageNumber(locals.offset)]
    /\ UNCHANGED <<numFilms, clock, lastCall>>

\* prompt_next_page, which asks again until the input is y or n, and
\* `if prompt_next_page() != "y": break`, `offset += 10`; `answer` is what
\* prompt_next_page returned
PaginateAnswer ==
    /\ pc = "pg_prompt"
    /\ \E raw \in Answers :
          LET response == NextPageResponse(raw) IN
          IF response \notin {<<"y">>, <<"n">>} THEN UNCHANGED <<pc, locals>>
          ELSE IF response # <<"y">>
          THEN /\ pc' = "pg_declined"
               /\ locals' = [locals EXCEPT !.answer = response]
          ELSE /\ pc' = "pg_fetch"
               /\ locals' = [locals EXCEPT !.answer = response,
                                           !.offset = NextOffset(locals.offset)]
    /\ UNCHANGED <<numFilms, clock, collection, openConns, openCursors, lastCall,
                   session>>

PaginateInit ==
    /\ numFilms \in 0..MaxFilms
    /\ clock = 0
    /\ collection = <<>>
    /\ openConns = 0
    /\ openCursors = 0
    /\ pc = "pg_fetch"
    /\ lastCall = NoCall
    /\ \E f \in FetchFunctions, start_offset \in StartOffsets :
          locals = [h |-> "paginate", fn |-> f.fn, args |-> f.args,
                    start_offset |-> start_offset, offset |-> start_offset,
                    results |-> NoValue, out |-> "none", page_num |-> 0,
                    answer |-> <<>>]
    /\ session = NoSession

PaginateNext == PaginateFetch \/ PaginateAnswer \/ Tick

PaginateSpec == PaginateInit /\ [][PaginateNext]_vars

(* ------------------------------- claims -------------------------------- *)
SameEvent(i, j) == Event(collection[i]) = Event(collection[j])

\* C1: after any sequence of sequential logger calls, no two stored entries of
\* the same type and the same normalized parameters have timestamps 5 seconds
\* or less apart.
C1_UniquenessWindow ==
    \A i, j \in 1..Len(collection) :
        i < j /\ SameEvent(i, j) =>
            \/ collection[j].timestamp - collection[i].timestamp > DedupWindow
            \/ collection[i].timestamp - collection[j].timestamp > DedupWindow

\* the same event is stored twice
C1_Witness ==
    \E i, j \in 1..Len(collection) : i < j /\ SameEvent(i, j)

EntriesOf(store, probe) == {i \in 1..Len(store) : Event(store[i]) = probe}

\* C2: a logger call that passes the early-reject checks inserts a new entry,
\* stamped with the call's now, if and only if the store holds no entry of the
\* same event with timestamp >= now - 5s; so a call made 5 seconds or less after
\* the event's only entry leaves one entry, and a call made 6 seconds or more
\* after it leaves two.
C2_InsertIffNoRecent ==
    [][(clock' = clock /\ lastCall'.made /\ lastCall'.completed) =>
        LET probe == lastCall'.probe
            now == clock
            held == \E i \in 1..Len(collection) :
                        /\ Event(collection[i]) = probe
                        /\ collection[i].timestamp >= now - DedupWindow
            stored == Append(collection, probe @@ [timestamp |-> now])
            before == EntriesOf(collection, probe)
            after == Cardinality(EntriesOf(collection', probe))
        IN  /\ ~held => collection' = stored
            /\ held => collection' = collection
            /\ \A i \in before :
                  before = {i} =>
                      /\ now - collection[i].timestamp <= DedupWindow => after = 1
                      /\ now - collection[i].timestamp >= DedupWindow + 1 => after = 2
       ]_vars

\* a call was made exactly 5 seconds after the event's only entry, and was
\* suppressed
C2_Witness ==
    /\ lastCall.made /\ "completed" \in DOMAIN lastCall /\ lastCall.completed
    /\ \E i \in 1..Len(collection) :
          /\ EntriesOf(collection, lastCall.probe) = {i}
          /\ collection[i].timestamp = clock - DedupWindow

Failed(call) ==
    \/ call.db # "ok"
    \/ call.fn # "keyword" /\ SqlGenresClean(call.args.genres) = <<>>

\* C7: for each of the three query builder functions and for any data-access
\* failure, the call returns the well-formed empty result and no exception
\* reaches the caller.
C7_FailSoft ==
    (lastCall.made /\ lastCall.qbCalls = 1 /\ Failed(lastCall)) =>
        /\ ~lastCall.raised
        /\ lastCall.ret = IF lastCall.fn = "keyword" THEN EmptyList ELSE EmptyDict

\* C8: every query builder call that acquires a connection releases it, and
\* any cursor it opened, before returning, on every exit path.
C8_ConnectionsReleased == openConns = 0 /\ openCursors = 0

\* C9: for every facade call, whatever the logger does, the query builder is
\* invoked exactly once for that call.
C9_QueryAlwaysRuns == lastCall.made => lastCall.qbCalls = 1

\* C3: in every paginated session of the interactive controller only the first
\* page fetch is made with logged = False, every later one with logged = True,
\* and the session creates at most one log entry
C3_OnlyFirstPageLogged ==
    /\ \A k \in 1..Len(session.flags) : session.flags[k] = (k > 1)
    /\ session.inserts <= 1

\* a session of three page fetches whose first one wrote the log entry, seen
\* more than a dedup window later
C3_Witness ==
    /\ pc = "returned"
    /\ Len(session.flags) = 3
    /\ session.inserts = 1
    /\ Len(collection) = 1
    /\ collection[1].timestamp = 0
    /\ clock > DedupWindow

\* C4: in a session driven by paginate_results over a facade function every
\* page fetch after the first is made with logged = True, and the session
\* writes at most one log entry however long the user waits between pages
C4_PaginatorLogsFirstPageOnly ==
    /\ \A k \in 2..Len(session.flags) : session.flags[k]
    /\ session.inserts <= 1

\* C5: whenever the fetch of paginate_results returns a page without movie
\* records the paginator ends there, with "nothing found" at offset 0 and
\* "no further results" at a later offset
C5_EmptyPageEnds ==
    (/\ locals.h = "paginate"
     /\ pc \in {"pg_prompt", "pg_ended", "pg_raised"}
     /\ locals.results.kind # "none"
     /\ locals.results.movies = <<>>)
    => /\ pc = "pg_ended"
       /\ locals.out = IF locals.offset = 0 THEN "nothing_found" ELSE "no_more"

Ceil(a, b) == (a + b - 1) \div b

TotalMatches(fn, args) ==
    Len(Rows({f \in 1..numFilms :
               IF fn = "keyword" THEN KeywordMatches(args.keyword, f)
               ELSE IF fn = "genre_year"
               THEN GenreYearMatches(SqlGenresClean(args.genres), args.year_from,
                                     args.year_to, f)
               ELSE GenreExactYearMatches(SqlGenresClean(args.genres), args.year.v, f)},
             "asc"))

\* C6: with both stores answering and a user who always continues, the
\* paginator started at offset 0 ends after exactly ceil(total_matches / 10) + 1 fetch rounds
C6_RoundsToEnd ==
    (/\ locals.h = "paginate"
     /\ locals.start_offset = 0
     /\ pc \in {"pg_ended", "pg_raised"}
     /\ ~session.failed)
    => /\ pc = "pg_ended"
       /\ Len(session.flags) = Ceil(TotalMatches(locals.fn, locals.args), PageSize) + 1

\* C10: no failure during a menu action ends run_app: the loop is left only by
\* the exit choice or a keyboard interrupt
C10_FailuresNonFatal == pc # "crashed"

Answered(call) == call.made /\ call.db = "ok" /\ ~call.raised

\* C11: every page the genre+year-range search returns has
\* total_count >= len(movies), and two pages of the same search (the same
\* genres and years, any two offsets) carry the same total_count
C11_TotalCountStable ==
    [][(Answered(lastCall') /\ lastCall'.fn = "genre_year") =>
        /\ lastCall'.ret.total_count >= Len(lastCall'.ret.movies)
        /\ (/\ Answered(lastCall)
            /\ lastCall.fn = "genre_year"
            /\ lastCall.args = lastCall'.args)
           => lastCall'.ret.total_count = lastCall.ret.total_count
      ]_vars

\* the second page of a search whose matches fill more than one page
C11_Witness ==
    /\ Answered(lastCall)
    /\ lastCall.fn = "genre_year"
    /\ lastCall.offset = PageSize
    /\ lastCall.ret.movies # <<>>
    /\ lastCall.ret.total_count > PageSize

\* the film has at least one of the requested genres
HasRequestedGenre(f, genres) ==
    \E i \in 1..Len(genres) :
        /\ Strip(genres[i]) # <<>>
        /\ \E g \in FilmGenres(f) : Lower(g) = Lower(Strip(genres[i]))

\* the year predicate of the call's mode
YearHolds(call, f) ==
    IF call.fn = "genre_year"
    THEN call.args.year_from <= ReleaseYear(f) /\ ReleaseYear(f) <= call.args.year_to
    ELSE call.args.year.int /\ ReleaseYear(f) = call.args.year.v

Satisfying(call) ==
    {f \in 1..numFilms : HasRequestedGenre(f, call.args.genres) /\ YearHolds(call, f)}

\* C12: in both genre modes every returned movie has at least one of the
\* requested genres and a release year satisfying the year predicate, no movie
\* is returned twice, and total_count is the number of movies of the catalog
\* satisfying that predicate, whatever the offset
C12_SameFilter ==
    Answered(lastCall) =>
        LET movies == lastCall.ret.movies IN
        /\ \A i \in 1..Len(movies) : movies[i].film \in Satisfying(lastCall)
        /\ \A i, j \in 1..Len(movies) : movies[i].film = movies[j].film => i = j
        /\ lastCall.ret.total_count = Cardinality(Satisfying(lastCall))

\* a returned movie that has one of two requested genres and not the other
C12_Witness ==
    /\ Answered(lastCall)
    /\ Len(lastCall.args.genres) = 2
    /\ \E i \in 1..Len(lastCall.ret.movies) :
          Cardinality(FilmGenres(lastCall.ret.movies[i].film)) = 1

Min(a, b) == IF a < b THEN a ELSE b
Max(a, b) == IF a > b THEN a ELSE b

Last(q) == q[Len(q)]

\* the number of films whose title contains the keyword
KeywordTotal(keyword) ==
    Cardinality({f \in 1..numFilms : Contains(Lower(Title(f)), Lower(keyword))})

\* C13: no page holds more than 10 records; in a keyword session whose stores
\* answered, the fetch at offset o returns min(10, max(0, N - o)) records of
\* the N matching films, and a session that ends on an empty page at a later
\* offset signals "no further results"
C13_PageSizes ==
    /\ \A k \in 1..Len(session.sizes) : session.sizes[k] <= PageSize
    /\ (session.fn = "keyword" /\ ~session.failed) =>
          LET N == KeywordTotal(session.args.keyword) IN
          /\ \A k \in 1..Len(session.sizes) :
                session.sizes[k] = Min(PageSize, Max(0, N - session.offsets[k]))
          /\ (pc = "returned" /\ Last(session.sizes) = 0) =>
                session.signal = IF Last(session.offsets) = 0 THEN "not_found"
                                 ELSE "no_more"

\* the keyword session over a catalog of more than one page: a full page, the
\* rest, then the empty page at the third offset and the signal
C13_Witness ==
    /\ session.fn = "keyword"
    /\ ~session.failed
    /\ numFilms > PageSize
    /\ session.offsets = <<0, PageSize, 2 * PageSize>>
    /\ session.sizes = <<PageSize, numFilms - PageSize, 0>>
    /\ session.signal = "no_more"

\* where the paginator session stands: every fetch so far was made at
\* start_offset + 10 * (k - 1), the page shown is numbered offset / 10 + 1, a
\* later fetch is awaited only after the answer y and a session declined was
\* answered n
PaginatorOrder ==
    /\ \A k \in 1..Len(session.offsets) :
          session.offsets[k] = locals.start_offset + PageSize * (k - 1)
    /\ pc = "pg_prompt" => locals.page_num = locals.offset \div PageSize + 1
    /\ (pc = "pg_fetch" /\ session.offsets # <<>>) =>
          /\ locals.answer = <<"y">>
          /\ locals.offset = Last(session.offsets) + PageSize
    /\ pc = "pg_declined" => locals.answer = <<"n">>

\* C14: the paginator fetches first at start_offset, advances only on an
\* affirmative answer and then by exactly 10, numbers the page offset / 10 + 1,
\* and any other answer ends the session without a further fetch
C14_OffsetsAdvanceByTen ==
    [][/\ PaginatorOrder'
       /\ pc = "pg_prompt" /\ locals'.answer # <<"y">> /\ locals' # locals =>
             pc' = "pg_declined" /\ session' = session
       /\ pc = "pg_prompt" => session' = session
       /\ pc \in {"pg_declined", "pg_ended", "pg_raised"} => session' = session
      ]_vars

\* a session that fetched two pages and was declined at the second
C14_Witness ==
    /\ pc = "pg_declined"
    /\ session.offsets = <<0, PageSize>>
    /\ locals.page_num = 2

\* a text of nothing but spaces
Blank(text) == \A i \in 1..Len(text) : text[i] = " "

\* the integer a year argument stands for, if it stands for one
StandsForInteger(raw_year) ==
    raw_year.int \/ (IsStr(raw_year) /\ IsDecimal(Strip(raw_year.text)))
IntegerOf(raw_year) ==
    IF raw_year.int THEN raw_year.v ELSE ParseInt(Strip(raw_year.text), 0)

\* the criteria the logger is to reject
Rejected(call) ==
    \/ call.fn = "keyword" /\ Blank(call.args.keyword)
    \/ /\ call.fn \in {"genre_year", "genre_exact_year"}
       /\ \A i \in 1..Len(call.args.genres) : Blank(call.args.genres[i])
    \/ /\ call.fn = "genre_exact_year"
       /\ \/ ~StandsForInteger(call.args.year)
          \/ IntegerOf(call.args.year) < MinLoggedYear

C16_LoggedSkipsLogger ==
    [][lastCall'.flag.value =>
          /\ collection' = collection
          /\ ~lastCall'.asked
          /\ lastCall'.info = 0
      ]_vars

\* C17: a keyword event is stored under its lower-cased, trimmed text, and a
\* keyword call inserts nothing when an entry of the same lower-cased, trimmed
\* text is at most 5 seconds old: " Ma " and "ma" collide
C17_KeywordCollides ==
    [][(lastCall'.made /\ lastCall'.fn = "keyword" /\ clock' = clock) =>
          LET text == Lower(Strip(lastCall'.args.keyword))
              held == \E i \in 1..Len(collection) :
                          /\ collection[i].type = "keyword"
                          /\ collection[i].keyword = text
                          /\ clock - collection[i].timestamp <= DedupWindow
          IN  /\ held => collection' = collection
              /\ ~held => collection' =
                    Append(collection,
                           [type |-> "keyword", keyword |-> text, timestamp |-> clock])
      ]_vars

\* " Ma " was logged, and "ma" searched within the window added nothing
C17_Witness ==
    /\ lastCall.made
    /\ lastCall.fn = "keyword"
    /\ lastCall.args.keyword = <<"m", "a">>
    /\ lastCall.info = 0
    /\ lastCall.prev.fn = "keyword"
    /\ lastCall.prev.args.keyword = <<" ", "M", "a", " ">>
    /\ lastCall.prev.info = 1
    /\ clock > 0
    /\ collection = <<[type |-> "keyword", keyword |-> <<"m", "a">>, timestamp |-> 0]>>

\* the names of a genre list, trimmed, without the blank ones
TrimmedNames(genres) ==
    LET trimmed == [i \in 1..Len(genres) |-> Strip(genres[i])]
    IN  SelectSeq(trimmed, LAMBDA g : g # <<>>)

\* two lists hold the same names the same number of times
Permutation(a, b) ==
    /\ Len(a) = Len(b)
    /\ \A x \in Range(a) \cup Range(b) :
          Cardinality({i \in 1..Len(a) : a[i] = x}) =
              Cardinality({i \in 1..Len(b) : b[i] = x})

\* the stored entry is an event of the call's type and years
SameTypeAndYears(e, call) ==
    /\ e.type = call.fn
    /\ call.fn = "genre_year" =>
          e.years = <<call.args.year_from, "--", call.args.year_to>>
    /\ call.fn = "genre_exact_year" => e.year = call.args.year.v

C19_FacadeTransparent ==
    (lastCall.made /\ lastCall.qbCalls = 1) =>
        LET q == SqlSearch(lastCall.fn, lastCall.args, lastCall.offset,
                           lastCall.db, lastCall.order)
        IN  /\ lastCall.raised = q.raised
            /\ lastCall.ret = q.ret

\* a keyword call with a padded, capitalised keyword found its entry present
\* and returned the rows of the padded keyword
C19_Witness ==
    /\ lastCall.made
    /\ lastCall.fn = "keyword"
    /\ lastCall.args.keyword = <<" ", "M", "a", " ">>
    /\ ~lastCall.logged
    /\ lastCall.probed
    /\ lastCall.info = 0
    /\ lastCall.db = "ok"
    /\ ~lastCall.raised
    /\ \E i \in 1..Len(collection) : collection[i].type = "keyword"
    /\ lastCall.ret # sql_search_by_keyword(<<"m", "a">>, lastCall.offset, "ok",
                                            lastCall.order).ret

\* both processes were told "not found" and have finished
BothPassed ==
    \A p \in Processes : Proc(p).at = "done" /\ ~Proc(p).recent

\* C20: when both processes passed the "not found" check before either
\* inserted, both insert: the store holds the event twice, stamped with the two
\* processes' times, and an event is stored twice within the window only so
C20_BothPassBothInsert ==
    /\ BothPassed =>
          /\ Len(collection) = 2
          /\ SameEvent(1, 2)
          /\ {collection[1].timestamp, collection[2].timestamp} =
                 {Proc(p).now : p \in Processes}
    /\ (\E i, j \in 1..Len(collection) :
            /\ i < j
            /\ SameEvent(i, j)
            /\ collection[j].timestamp - collection[i].timestamp < DedupWindow
            /\ collection[i].timestamp - collection[j].timestamp < DedupWindow)
          => BothPassed

\* the duplicate: the same event stored twice less than 5 seconds apart
C20_Witness ==
    /\ BothPassed
    /\ Len(collection) = 2
    /\ SameEvent(1, 2)
    /\ collection[1].timestamp # collection[2].timestamp
    /\ collection[2].timestamp - collection[1].timestamp < DedupWindow
    /\ collection[1].timestamp - collection[2].timestamp < DedupWindow

\* the step was a reader's
ReaderStep == lastCall'.made /\ "result" \in DOMAIN lastCall'

\* C21: no step updates or deletes an entry of the log store, a logger call
\* adds at most one entry at its end, and a statistics reader leaves the store
\* as it was
C21_AppendOnly ==
    [][/\ \/ collection' = collection
          \/ /\ Len(collection') = Len(collection) + 1
             /\ SubSeq(collection', 1, Len(collection)) = collection
       /\ ReaderStep => collection' = collection
      ]_vars

\* the last searches were read from a store that holds the same event twice,
\* the newer entry first
C21_Witness ==
    /\ lastCall.made
    /\ "result" \in DOMAIN lastCall
    /\ lastCall.fn = "get_last_searches"
    /\ Len(collection) >= 2
    /\ \E i, j \in 1..Len(collection) : i < j /\ SameEvent(i, j)
    /\ Len(lastCall.result) = Len(collection)
    /\ lastCall.result[1] = collection[Len(collection)]

\* C22: in the range flow, years entered with year_from > year_to end the
\* operation at the menu with no search issued: no page fetched, the log store
\* and the catalog connections as they were
C22_BadRangeRejected ==
    [][( /\ session'.fn = "genre_year"
         /\ session'.args.year_from > session'.args.year_to ) =>
          /\ session'.offsets = <<>>
          /\ session'.inserts = 0
          /\ pc' = "returned"
          /\ collection' = collection
          /\ openConns' = openConns
          /\ openCursors' = openCursors
      ]_vars

\* 1995 to 1985 was entered, both years of the catalog, and nothing searched
C22_Witness ==
    /\ pc = "returned"
    /\ session.fn = "genre_year"
    /\ session.args.year_from = 1995
    /\ session.args.year_to = 1985
    /\ session.signal = "bad_range"
    /\ session.offsets = <<>>
    /\ collection = <<>>

\* the year lies between the least and the greatest release year of the catalog
InCatalogRange(year) ==
    /\ \E lo \in CatalogYears : lo <= year
    /\ \E hi \in CatalogYears : year <= hi

\* the id is one of a genre that some film of the catalog has
KnownGenreName(name) ==
    \E i \in 1..Len(Categories) :
        /\ Categories[i].name = name
        /\ \E f \in 1..numFilms : name \in FilmGenres(f)

\* C23: a search reaches the facade only with a keyword that is not empty, with
\* years of the catalog's [min, max] range and with genres selected by known
\* numbers
C23_InvalidInputNeverSearches ==
    session.offsets # <<>> =>
        /\ session.fn = "keyword" => ~Blank(session.args.keyword)
        /\ session.fn = "genre_year" =>
              /\ InCatalogRange(session.args.year_from)
              /\ InCatalogRange(session.args.year_to)
        /\ session.fn = "genre_exact_year" => InCatalogRange(session.args.year.v)
        /\ session.fn \in {"genre_year", "genre_exact_year"} =>
              \A i \in 1..Len(session.args.genres) :
                  KnownGenreName(session.args.genres[i])

\* C28: every genre search the controller issues has a non-empty list of genre
\* names of the catalog, years inside the catalog's [min, max] release years
\* and, in range mode, year_from <= year_to, however the loading of the genres
\* and of the year range ended
C28_IssuedGenreSearchesValid ==
    (session.offsets # <<>> /\ session.fn \in {"genre_year", "genre_exact_year"}) =>
        /\ session.args.genres # <<>>
        /\ \A i \in 1..Len(session.args.genres) :
              KnownGenreName(session.args.genres[i])
        /\ IF session.fn = "genre_year"
           THEN /\ session.args.year_from <= session.args.year_to
                /\ \A y \in {session.args.year_from, session.args.year_to} :
                      InCatalogRange(y)
           ELSE InCatalogRange(session.args.year.v)

\* what the standalone logging function of a search does to the store
StandaloneLog(fn, args, now, store) ==
    IF fn = "keyword" THEN log_keyword_search(args.keyword, now, store, "ok")
    ELSE IF fn = "genre_year"
    THEN log_genre_year_search(args.genres, args.year_from, args.year_to, now,
                               store, "ok")
    ELSE log_genre_exact_year_search(args.genres, args.year, now, store, "ok")

\* C24: from the store and the time of any call, the standalone logging
\* function and the decorator with logged = False leave the same store for the
\* call's inputs, and the call made left that store
C24_StandaloneSameAsDecorator ==
    [][(lastCall'.made /\ clock' = clock) =>
          LET decorated == WrapperLog(lastCall'.fn, lastCall'.args, FALSE, clock,
                                      collection, "ok")
              direct == StandaloneLog(lastCall'.fn, lastCall'.args, clock, collection)
          IN  /\ decorated.store = direct.store
              /\ collection' = decorated.store
      ]_vars

\* C25: a suppressed request changes nothing in the store, and a request is
\* stored exactly when the store's entries are all more than 5 seconds old,
\* whenever the event was last requested: the window starts at the last stored
\* entry, not at the last request
C25_WindowAnchoredAtStored ==
    [][(lastCall'.made /\ clock' = clock) =>
          LET recent == \E i \in 1..Len(collection) :
                            clock - collection[i].timestamp <= DedupWindow
          IN  /\ lastCall'.info = 0 => collection' = collection
              /\ lastCall'.info = 1 =>
                    /\ Len(collection') = Len(collection) + 1
                    /\ Last(collection').timestamp = clock
              /\ recent <=> lastCall'.info = 0
      ]_vars

\* requested at 0, 3 and 6: stored, suppressed, and stored again 3 seconds
\* after the suppressed request
C25_Witness ==
    /\ lastCall.made
    /\ lastCall.at = 6
    /\ lastCall.info = 1
    /\ lastCall.prev.made
    /\ lastCall.prev.at = 3
    /\ lastCall.prev.info = 0
    /\ Len(collection) = 2
    /\ collection[1].timestamp = 0
    /\ collection[2].timestamp = 6

\* the films of the catalog the search is about
SearchedFilms(fn, args) ==
    {f \in 1..numFilms :
        IF fn = "keyword" THEN KeywordMatches(args.keyword, f)
        ELSE IF fn = "genre_year"
        THEN GenreYearMatches(args.genres, args.year_from, args.year_to, f)
        ELSE GenreExactYearMatches(args.genres, args.year.v, f)}

\* C26: once the first empty page has arrived, the pages read at offsets
\* 0, 10, 20, ... hold every matching film exactly once, whatever row order the
\* store chose for each of the queries
C26_PagesPartitionMatches ==
    (locals.h = "pages" /\ locals.done) =>
        /\ {locals.seen[i] : i \in 1..Len(locals.seen)}
              = SearchedFilms(locals.fn, locals.args)
        /\ \A i, j \in 1..Len(locals.seen) :
              locals.seen[i] = locals.seen[j] => i = j

\* C27: a row of a genre search lists those genres of its film that were
\* requested, and only those; a row of a keyword search lists every genre of
\* its film
C27_GenreFieldFiltered ==
    (locals.h = "pages" /\ lastCall.made) =>
        \A i \in 1..Len(Movies(lastCall.ret)) :
            LET row == Movies(lastCall.ret)[i] IN
            IF lastCall.fn = "keyword"
            THEN row.genre = FilmGenres(row.film)
            ELSE row.genre = FilmGenres(row.film) \cap Range(lastCall.args.genres)

\* a film that is Action and Drama, searched with Action alone, comes back as
\* Action
C27_Witness ==
    /\ locals.h = "pages"
    /\ lastCall.made
    /\ lastCall.fn = "genre_year"
    /\ lastCall.args.genres = <<Action>>
    /\ \E i \in 1..Len(Movies(lastCall.ret)) :
          /\ FilmGenres(Movies(lastCall.ret)[i].film) = {Action, Drama}
          /\ Movies(lastCall.ret)[i].genre = {Action}

\* C29: typing the numbers printed next to some genres selects exactly those
\* genres, whatever ids the categories have, and typing 0 selects every genre
C29_ShownNumberSelects ==
    (locals.h = "table" /\ lastCall.made) =>
        /\ ~lastCall.retry
        /\ {lastCall.names[i] : i \in 1..Len(lastCall.names)} = lastCall.wanted

\* C30: the pair get_year_range hands the genre search is a pair of integers
\* min <= max: the least and the greatest release year of the catalog, or
\* (1990, 2025) when they could not be read or the catalog has no film
C30_YearRangeValid ==
    locals.h = "genre" =>
        LET years == locals.year_from IN
        /\ ~years.none
        /\ years.lo <= years.hi
        /\ \/ years = DefaultYears
           \/ /\ numFilms > 0
              /\ \A f \in 1..numFilms :
                    years.lo <= ReleaseYear(f) /\ ReleaseYear(f) <= years.hi
              /\ \E f, g \in 1..numFilms :
                    years.lo = ReleaseYear(f) /\ years.hi = ReleaseYear(g)

====
